---- MODULE Spec2Model ----
(***************************************************************************)
(* MCManager of Updater/source/mc/minecraft.py: the resolution of a sync   *)
(* target (_create_dir_path, _create_file_path), the generator sync_dir    *)
(* and sync_file, run against a local working directory and a remote       *)
(* listing.                                                                *)
(*                                                                         *)
(* Settings and PropagatingThread of Launcher/source/utils.py, RunWindow   *)
(* of Launcher/source/gui/app_run_win.py and RightFrame.run_game of        *)
(* Launcher/source/gui/app_win.py.                                         *)
(*                                                                         *)
(* Five specifications are given.                                          *)
(*   Spec      the program as written.  Lines 70-79 of _create_dir_path    *)
(*             test the global name `remote` (the module imported on       *)
(*             line 11), not the parameter remote_dir.                     *)
(*   SpecBody  the same definitions with the name tested on lines 70-79    *)
(*             read as the parameter remote_dir, which is the reading      *)
(*             under which the docstring of _create_dir_path holds.  It is *)
(*             the only way to exercise lines 162-182 of sync_dir.         *)
(*   SpecFile  the program as written together with the calls of          *)
(*             sync_file, over the manifests and local files of the two    *)
(*             singleton files.                                            *)
(*   SpecSettings  the Settings objects of the Launcher's two frames over  *)
(*             one settings file.                                          *)
(*   SpecGui   a PropagatingThread with its joiner, and run_game with the  *)
(*             RunWindow it opens.                                         *)
(***************************************************************************)
EXTENDS Naturals, Sequences, FiniteSets, TLC

\* ------------------------------------------------------------------ bounds

\* Number of distinct filenames that may exist locally or remotely.
MaxFiles == 3
\* Size of the download coordinator's worker pool (bounded parallelism).
PoolSize == 2

\* ------------------------------------------------------------------ values

None == "None"

FileNames == <<"a.jar", "b.jar", "c.jar", "d.jar", "e.jar">>
Files == {FileNames[i] : i \in 1..MaxFiles}

\* The categories a directory sync accepts (docstring of _create_dir_path).
Categories == {"config", "mods", "resourcepacks", "shaderpacks"}
\* The singleton files of _create_file_path.
Singletons == {"options", "servers"}
\* Every name a caller is taken to pass as remote_dir.
Names == Categories \cup Singletons \cup {"bogus"}

\* The object bound to the global name `remote` (line 11): a module object.
\* It is hashable, equal only to itself, and so never a key of a parsed
\* manifest and never equal to a string.
RemoteModule == "<module 'source.mc.remote'>"

\* The URL a manifest gives for a key, when it gives one.
Url(k) == "https://host/" \o k

\* context.work_dir / sub
WorkDir(sub) == "work_dir/" \o sub
Dirs == {WorkDir(c) : c \in Categories}

\* The manifests (remote_config["urls"]) considered: the empty one and, for
\* each category c, the ones holding c, "options" and "servers", with the
\* URL of c set or None.
\* The local paths of the two singleton files (lines 107, 109).
FilePath(name) ==
    IF name = "options" THEN WorkDir("options.txt") ELSE WorkDir("servers.dat")
FilePaths == {FilePath(name) : name \in Singletons}
\* What a path holds: nothing, a file that differs from the server's, or a
\* copy of the server's file.
Absent == "absent"
Stale == "stale"
Fresh == "fresh"
Contents == {Absent, Stale, Fresh}

Manifests ==
    {[k \in {} |-> None]} \cup
    {[k \in {c, "options", "servers"} |-> IF k = c /\ n THEN None ELSE Url(k)] :
        c \in Categories, n \in BOOLEAN}

VARIABLES
    urls,              \* self.remote_config["urls"], immutable
    server,            \* filenames the server lists (the same for every URL)
    dirs,              \* category directories that exist under work_dir
    files,             \* files[d]: filenames present in directory d
    pc,                \* position of the sync_dir generator frame
    remote_dir,        \* argument of the current sync_dir call
    local_dir,         \* local of sync_dir, line 161
    remote_dir_url,    \* local of sync_dir, line 161
    server_mods,       \* local of sync_dir, line 165 ({} while unbound)
    todo,              \* entries of os.listdir(local_dir) not yet iterated
    pending,           \* jobs handed to download_files, not yet dispatched
    inflight,          \* jobs being downloaded by a pool worker
    events,            \* progress events yielded to the caller, in order
    exc,               \* exception that reached the caller in this run
    res,               \* outcome of the last _create_dir_path call
    removed,           \* history: files os.remove deleted in this run
    submitted,         \* history: filenames handed to download_files
    written,           \* history: files a download wrote in this run
    files0,            \* history: files when sync_dir was called
    dirs0,             \* history: dirs when sync_dir was called
    iterated,          \* history: the caller called next() on the generator
    unavailable,       \* history: the listing call that returned None, if any
    cancelled,         \* the caller has raised its cancellation signal
    interrupted,       \* history: the run before this one was interrupted
    workdir,           \* work_dir exists
    paths,             \* content of work_dir/options.txt and servers.dat
    paths0,            \* history: paths when sync_file was last called
    sf,                \* history: the last sync_file call and how it ended
    settings_file,     \* Launcher: content of settings.json
    first_run,         \* Launcher: Settings._first_run
    defaults,          \* Launcher: gui_settings, user_settings, game_settings
    objects,           \* Launcher: the Settings objects and their sections
    writable,          \* Launcher: settings.json can be opened for writing
    last,              \* history: the last Settings call and how it ended
    thread,            \* Launcher: a PropagatingThread and its attributes
    target,            \* Launcher: how the thread's target ends
    joined,            \* history: the last join() and how it ended
    play_button,       \* Launcher: state of the Play button
    settings_button,   \* Launcher: state of the Settings button
    rg,                \* Launcher: position of RightFrame.run_game
    win,               \* Launcher: the RunWindow
    prevClean          \* history: directory the previous run synced cleanly

sync == <<urls, server, dirs, files, pc, remote_dir, local_dir, remote_dir_url,
          server_mods, todo, pending, inflight, events, exc, res, removed,
          submitted, written, files0, dirs0, iterated, unavailable,
          cancelled, interrupted, prevClean, workdir, paths, paths0, sf>>
settings == <<settings_file, first_run, defaults, objects, writable, last>>
gui == <<thread, target, joined, play_button, settings_button, rg, win>>
launcher == <<settings, gui>>
vars == <<sync, launcher>>

frame == <<local_dir, remote_dir_url, server_mods, todo, pending, inflight>>
world == <<urls, server>>
single == <<paths, paths0, sf>>

\* ------------------------------------------------------------ exceptions

\* The exceptions that leave sync_dir, each named by the line that raises it.
InvalidRemoteDirectory == "ValueError: Invalid remote directory"            \* 71
UnknownValidRemoteDirectory == "ValueError: Unknown valid remote directory" \* 81
ServerFilenamesNotSet == "ValueError: Server filenames are not set"         \* 167
UrlsToDownloadNotSet == "ValueError: URLs to download are not set"          \* 178
RemoveError == "OSError"                                                    \* 172
KeyErrorUrls == "KeyError"                                                  \* 84
ValueErrors == {InvalidRemoteDirectory, UnknownValidRemoteDirectory,
                ServerFilenamesNotSet, UrlsToDownloadNotSet}

\* ------------------------------------------------------- _create_dir_path

\* The manifests of the sync_file inputs: each singleton and the category
\* mods is a key or not, and a key has a URL or None.
FileManifests ==
    UNION {[K -> {None, "https://host/file"}] :
              K \in SUBSET (Singletons \cup {"mods"})}

NoCall == [kind |-> "none", exc |-> None, local_dir |-> None, url |-> None,
           mkdir |-> FALSE]
Raise(e) == [kind |-> "raise", exc |-> e, local_dir |-> None, url |-> None,
             mkdir |-> FALSE]
Return(d, u) == [kind |-> "return", exc |-> None, local_dir |-> d, url |-> u,
                 mkdir |-> TRUE]

\* _create_dir_path without the checks of lines 70-71 and 80-81: every name
\* is given a directory under work_dir.
create_dir_path_unchecked(remote, rdir, config) ==
    IF rdir \in DOMAIN config
    THEN Return(WorkDir(rdir), config[rdir])
    ELSE [Raise(KeyErrorUrls) EXCEPT !.mkdir = TRUE,
                                     !.local_dir = WorkDir(rdir)]

\* Lines 70-87.  `remote` is the object the tests of lines 70-79 see, rdir
\* the parameter line 84 indexes with, config the manifest
\* (remote_config["urls"]).  Line 68 never fires: __init__ (line 41) calls
\* remote_config.get, so no MCManager exists whose remote_config is None.
create_dir_path(remote, rdir, config) ==
    IF remote \notin DOMAIN config THEN Raise(InvalidRemoteDirectory)
    ELSE IF remote \in Categories
         THEN IF rdir \in DOMAIN config
              THEN Return(WorkDir(remote), config[rdir])
              ELSE [Raise(KeyErrorUrls) EXCEPT !.mkdir = TRUE,
                                               !.local_dir = WorkDir(remote)]
    ELSE Raise(UnknownValidRemoteDirectory)

\* ---------------------------------------------------------- sync_file

InvalidRemoteFile == "ValueError: Invalid remote file"             \* 105
UnknownValidRemoteFile == "ValueError: Unknown valid remote file"  \* 111
ServerFileNotSet == "ValueError: Server file is not set"           \* 201
FileValueErrors == {InvalidRemoteFile, UnknownValidRemoteFile, ServerFileNotSet}

\* A result of _create_file_path: the pair it returns or the exception it
\* raises, and whether os.makedirs (line 113) was called.
RaiseFile(e) == [kind |-> "raise", exc |-> e, path |-> None, url |-> None,
                 mkdir |-> FALSE]
ReturnFile(p, u) == [kind |-> "return", exc |-> None, path |-> p, url |-> u,
                     mkdir |-> TRUE]

\* _create_file_path with os.makedirs moved in front of the checks of the
\* name.
create_file_path_mkdir_first(remote_file, config) ==
    IF remote_file \notin DOMAIN config
    THEN [RaiseFile(InvalidRemoteFile) EXCEPT !.mkdir = TRUE]
    ELSE IF remote_file \in Singletons
         THEN ReturnFile(FilePath(remote_file), config[remote_file])
         ELSE [RaiseFile(UnknownValidRemoteFile) EXCEPT !.mkdir = TRUE]

\* _create_file_path, lines 104-117.
create_file_path(remote_file, config) ==
    IF remote_file \notin DOMAIN config THEN RaiseFile(InvalidRemoteFile)
    ELSE IF remote_file = "options"
         THEN ReturnFile(WorkDir("options.txt"), config[remote_file])
    ELSE IF remote_file = "servers"
         THEN ReturnFile(WorkDir("servers.dat"), config[remote_file])
    ELSE RaiseFile(UnknownValidRemoteFile)

\* remote.get_file_download: the descriptor of the file behind the URL, or
\* None when the server does not answer.
get_file_download(url, ok) == IF ok THEN url ELSE None

\* A download primitive that leaves what it had written when it fails.
download_truncated(ok) == IF ok THEN Fresh ELSE Stale

\* remote.download: what the destination holds afterwards, the server's
\* file after a success and nothing after a failure.
download(ok) == IF ok THEN Fresh ELSE Absent

\* No sync_file call has been made.
NoFileCall == [name |-> None, kind |-> "none", exc |-> None, url |-> None,
               workdir0 |-> FALSE, removed |-> FALSE, requested |-> FALSE,
               ok |-> FALSE]
\* The record of a sync_file call that raised e / that returned.
FileRaised(name, e, u) ==
    [name |-> name, kind |-> "raise", exc |-> e, url |-> u,
     workdir0 |-> workdir, removed |-> FALSE, requested |-> FALSE,
     ok |-> FALSE]
FileReturned(name, u, rm, req, ok) ==
    [name |-> name, kind |-> "return", exc |-> None, url |-> u,
     workdir0 |-> workdir, removed |-> rm, requested |-> req, ok |-> ok]

\* sync_file, lines 195-209, as one call: resolve the name, return if it has
\* no URL, raise if the server gives no descriptor, remove the local file if
\* there is one, download.
SyncFile(remote_file) ==
    /\ pc \in {"idle", "returned", "raised"}
    /\ paths0' = paths
    /\ LET r == create_file_path(remote_file, urls) IN
       /\ workdir' = (workdir \/ r.mkdir)
       /\ IF r.kind = "raise"
          THEN /\ sf' = FileRaised(remote_file, r.exc, None)
               /\ paths' = paths
          ELSE IF r.url = None
          THEN /\ sf' = FileReturned(remote_file, None, FALSE, FALSE, FALSE)
               /\ paths' = paths
          ELSE \E avail \in BOOLEAN :
             IF get_file_download(r.url, avail) = None
             THEN /\ sf' = FileRaised(remote_file, ServerFileNotSet, r.url)
                  /\ paths' = paths
             ELSE \E rm_ok \in {b \in BOOLEAN : paths[r.path] # Absent \/ b} :
                IF ~rm_ok
                THEN /\ sf' = FileRaised(remote_file, RemoveError, r.url)
                     /\ paths' = paths
                ELSE \E dl_ok \in BOOLEAN :
                        /\ sf' = FileReturned(remote_file, r.url,
                                              paths[r.path] # Absent, TRUE,
                                              dl_ok)
                        /\ paths' = [paths EXCEPT
                                        ![r.path] = download(dl_ok)]
    /\ UNCHANGED <<launcher, world, dirs, files, pc, remote_dir, frame, events,
                   exc, res, removed, submitted, written, files0, dirs0,
                   iterated, prevClean, unavailable, cancelled, interrupted>>

\* ------------------------------------------- Launcher: Settings (utils.py)

\* Depth of the recursion load -> reset -> save -> load that is followed.
MaxDepth == 5
\* The Settings objects of the main window: the one of the left frame
\* (app_win.py line 43) and the one of the right frame (line 128).
Objects == {"left_frame", "right_frame"}

Sections == {"gui", "user", "game"}
Keys == {"main_window_geometry", "email", "autojoin"}
SecOf(k) ==
    CASE k = "main_window_geometry" -> "gui"
      [] k = "email" -> "user"
      [] OTHER -> "game"

\* A value is a pair of its Python type and its content; a key that a
\* dictionary does not hold has the value Missing.
Missing == <<"missing", "">>
\* gui_settings, user_settings and game_settings as the module defines them
\* (lines 41-69), one key of each type.
OrigDefaults ==
    [k \in Keys |->
        CASE k = "main_window_geometry" -> <<"list", "1200x500">>
          [] k = "email" -> <<"str", "">>
          [] OTHER -> <<"bool", "True">>]
\* The value a caller passes to set_gui, set_user and set_game for a key.
SetValue(k) ==
    CASE k = "main_window_geometry" -> <<"tuple", "800x600">>
      [] k = "email" -> <<"str", "a@b.c">>
      [] OTHER -> <<"bool", "False">>

\* settings.json: missing, not readable as the three sections, or holding
\* the three sections.
FileMissing == [state |-> "missing", data |-> OrigDefaults]
FileDamaged == [state |-> "damaged", data |-> OrigDefaults]
FileOk(d) == [state |-> "ok", data |-> d]
\* File contents that validate_settings rejects: a key is missing, a value
\* has another type.
InvalidContents ==
    {[OrigDefaults EXCEPT !["email"] = Missing],
     [OrigDefaults EXCEPT !["autojoin"] = <<"str", "yes">>]}
InitialFiles ==
    {FileMissing, FileDamaged, FileOk(OrigDefaults),
     FileOk([OrigDefaults EXCEPT !["email"] = <<"str", "a@b.c">>])}
        \cup {FileOk(d) : d \in InvalidContents}

\* json.dump followed by json.load: a tuple comes back as a list.
json_roundtrip(d) ==
    [k \in Keys |-> IF d[k][1] = "tuple" THEN <<"list", d[k][2]>> ELSE d[k]]

RecursionError == "RecursionError"
WriteError == "OSError: settings.json"
KeyErrorSetting == "KeyError: setting"

\* The state one Settings call works on: the file, the class flag, the
\* module dictionaries and the object's three sections, each of which is
\* the module dictionary itself (alias) or a dictionary of the object's own.
Machine(o) ==
    [file |-> settings_file, first_run |-> first_run, defaults |-> defaults,
     alias |-> objects[o].alias, own |-> objects[o].own,
     loads |-> 0, resets |-> 0, exc |-> None]
NoAlias == [s \in Sections |-> FALSE]
AllAlias == [s \in Sections |-> TRUE]
\* What self._gui, self._user and self._game hold.
View(M) ==
    [k \in Keys |-> IF M.alias[SecOf(k)] THEN M.defaults[k] ELSE M.own[k]]

\* A validation that no content passes.
validate_settings_strict(M) ==
    \A k \in Keys : View(M)[k] = Missing

\* validate_settings, lines 112-133: every default key is present with a
\* value of the default's type.
validate_settings(M) ==
    \A k \in Keys : View(M)[k][1] = M.defaults[k][1]

RECURSIVE load(_, _)
RECURSIVE save(_, _)
RECURSIVE reset(_, _)

\* load, lines 135-154.
load(M, fuel) ==
    IF fuel = 0 THEN [M EXCEPT !.exc = RecursionError]
    ELSE LET M1 == [M EXCEPT !.loads = @ + 1] IN
         IF M1.file.state # "ok" THEN reset(M1, fuel - 1)
         ELSE LET M2 == [M1 EXCEPT !.own = M1.file.data, !.alias = NoAlias] IN
              IF ~M2.first_run THEN M2
              ELSE IF validate_settings(M2)
                   THEN [M2 EXCEPT !.first_run = FALSE]
              ELSE LET M3 == reset(M2, fuel - 1) IN
                   IF M3.exc = None THEN [M3 EXCEPT !.first_run = FALSE]
                   ELSE IF M3.exc = RecursionError THEN M3
                   ELSE reset([M3 EXCEPT !.exc = None], fuel - 1)

\* save, lines 156-167.
save(M, fuel) ==
    IF ~writable THEN [M EXCEPT !.exc = WriteError]
    ELSE load([M EXCEPT !.file = FileOk(json_roundtrip(View(M)))], fuel)

\* reset, lines 169-177.
reset(M, fuel) == save([M EXCEPT !.alias = AllAlias, !.resets = @ + 1], fuel)

\* reset_gui, reset_user, reset_game, lines 179-201.
reset_section(M, sec) ==
    save([M EXCEPT !.alias = [@ EXCEPT ![sec] = TRUE]], MaxDepth)

\* self._gui[key] = value: the dictionary the section refers to is changed.
assign(M, k, v) ==
    IF M.alias[SecOf(k)]
    THEN [M EXCEPT !.defaults = [@ EXCEPT ![k] = v]]
    ELSE [M EXCEPT !.own = [@ EXCEPT ![k] = v]]

\* set_gui, set_user, set_game, lines 249-284; set_gui stores a tuple as a
\* list.
set_setting(M, k, v) ==
    LET stored == IF SecOf(k) = "gui" /\ v[1] = "tuple"
                  THEN <<"list", v[2]>> ELSE v
    IN save(assign(M, k, stored), MaxDepth)

\* get_gui, get_user, get_game, lines 203-247: the state after the call
\* and the value it returns; get_gui returns a list as a tuple.
get_state(M) == load(M, MaxDepth)
get_value(M, k) ==
    LET M1 == get_state(M)
        v == View(M1)[k] IN
    IF M1.exc # None THEN <<"raise", M1.exc>>
    ELSE IF v = Missing THEN <<"raise", KeyErrorSetting>>
    ELSE IF SecOf(k) = "gui" /\ v[1] = "list" THEN <<"tuple", v[2]>>
    ELSE v

NoObject == [made |-> FALSE, alias |-> NoAlias, own |-> OrigDefaults]
NoSettingsCall ==
    [op |-> "none", o |-> None, key |-> None, exc |-> None, loads |-> 0,
     resets |-> 0]

SettingsIdle ==
    /\ settings_file = FileMissing
    /\ first_run = TRUE
    /\ defaults = OrigDefaults
    /\ objects = [o \in Objects |-> NoObject]
    /\ writable = TRUE
    /\ last = NoSettingsCall

\* ------------------------------ Launcher: PropagatingThread (utils.py)

\* How a target ends: it returns None, returns a value or raises.
Targets ==
    {[kind |-> "return", value |-> None], [kind |-> "return", value |-> "42"],
     [kind |-> "raise", value |-> "ValueError"]}
NoTarget == [kind |-> "none", value |-> None]

\* __init__, lines 296-299.
NewThread == [state |-> "new", ret |-> None, exc |-> None]

\* run, lines 301-305: the target's value is kept in ret, its exception in
\* exc.
thread_run(t, tg) ==
    IF tg.kind = "return"
    THEN [t EXCEPT !.state = "done", !.ret = tg.value]
    ELSE [t EXCEPT !.state = "done", !.exc = tg.value]

\* join, lines 308-311, after super().join(timeout) has come back.
join(t) ==
    IF t.exc # None THEN <<"raise", t.exc>> ELSE <<"return", t.ret>>

NoJoin == [called |-> FALSE, timeout |-> FALSE, result |-> <<"none", None>>]

\* ---------------------------------- Launcher: RunWindow (app_run_win.py)

NoWindow == [state |-> "none", kill_process |-> "unset", scheduled |-> FALSE,
             running |-> FALSE]

\* __init__, lines 24-69: without an environment the window is destroyed
\* and nothing else is done; with one, kill_process is False and run is
\* scheduled.
new_run_window(environment) ==
    IF environment = None
    THEN [state |-> "destroyed", kill_process |-> "unset",
          scheduled |-> FALSE, running |-> FALSE]
    ELSE [state |-> "open", kill_process |-> "False", scheduled |-> TRUE,
          running |-> FALSE]

\* stop_run, lines 75-78.
stop_run(w) == [w EXCEPT !.kill_process = "True"]

\* The destroy of the toolkit, which RunWindow overrides.
destroy_inherited(w) == [w EXCEPT !.state = "destroyed"]

\* destroy, lines 71-73: the override only stops the run.
destroy(w) == stop_run(w)

\* run, lines 80-87.
run(w) == [w EXCEPT !.scheduled = FALSE, !.running = TRUE]

\* on_run_complete, lines 94-105: the window is destroyed.
on_run_complete(w) == [w EXCEPT !.state = "destroyed", !.running = FALSE]

GuiIdle ==
    /\ thread = NewThread
    /\ target = NoTarget
    /\ joined = NoJoin
    /\ play_button = "normal"
    /\ settings_button = "normal"
    /\ rg = "idle"
    /\ win = NoWindow

\* The Launcher is not running.
LauncherIdle ==
    /\ SettingsIdle
    /\ GuiIdle

\* ------------------------------------------------------------------- init

Init ==
    /\ urls \in Manifests
    /\ server \in SUBSET Files
    /\ \E have \in BOOLEAN, L \in SUBSET Files :
          /\ dirs = IF have THEN Dirs ELSE {}
          /\ files = [d \in Dirs |-> IF have THEN L ELSE {}]
          /\ ~have => L = {}
    /\ pc = "idle"
    /\ remote_dir = None
    /\ local_dir = None
    /\ remote_dir_url = None
    /\ server_mods = {}
    /\ todo = {}
    /\ pending = {}
    /\ inflight = {}
    /\ events = <<>>
    /\ exc = None
    /\ res = NoCall
    /\ removed = {}
    /\ submitted = {}
    /\ written = {}
    /\ files0 = files
    /\ dirs0 = dirs
    /\ iterated = FALSE
    /\ unavailable = None
    /\ cancelled = FALSE
    /\ interrupted = FALSE
    /\ prevClean = None
    /\ workdir = (dirs # {})
    /\ paths = [p \in FilePaths |-> Absent]
    /\ paths0 = paths
    /\ sf = NoFileCall
    /\ LauncherIdle

\* ---------------------------------------------------------------- sync_dir

\* Whether the run that is ending left its directory synced: it returned
\* normally after handing jobs to download_files and no event has the error
\* flag.
CleanRun ==
    /\ pc = "returned"
    /\ remote_dir_url # None
    /\ \A i \in 1..Len(events) : ~events[i][4]

\* The caller calls sync_dir(rdir).  sync_dir holds a yield, so the call runs
\* none of its body: it only creates the generator (line 147).
Call(rdir) ==
    /\ pc \in {"idle", "returned", "raised"}
    /\ pc' = "created"
    /\ remote_dir' = rdir
    /\ prevClean' = IF CleanRun THEN local_dir ELSE None
    /\ local_dir' = None
    /\ remote_dir_url' = None
    /\ server_mods' = {}
    /\ todo' = {}
    /\ pending' = {}
    /\ inflight' = {}
    /\ events' = <<>>
    /\ exc' = None
    /\ res' = NoCall
    /\ removed' = {}
    /\ submitted' = {}
    /\ written' = {}
    /\ files0' = files
    /\ dirs0' = dirs
    /\ iterated' = FALSE
    /\ unavailable' = None
    /\ cancelled' = FALSE
    /\ interrupted' = (pc = "idle" /\ remote_dir # None)
    /\ UNCHANGED <<launcher, world, single, workdir, dirs, files>>

\* The caller drops the generator without ever iterating it.
Drop ==
    /\ pc = "created"
    /\ pc' = "idle"
    /\ UNCHANGED <<launcher, world, single, workdir, dirs, files, remote_dir, frame, events, exc, res,
                   removed, submitted, written, files0, dirs0, iterated,
                   prevClean, unavailable, cancelled, interrupted>>

\* First next() of the caller, lines 161-164: resolve the category.
Resolve(remote) ==
    /\ pc = "created"
    /\ iterated' = TRUE
    /\ LET r == create_dir_path(remote, remote_dir, urls) IN
          /\ res' = r
          /\ dirs' = IF r.mkdir THEN dirs \cup {r.local_dir} ELSE dirs
          /\ workdir' = (workdir \/ r.mkdir)
          /\ local_dir' = IF r.kind = "return" THEN r.local_dir ELSE None
          /\ remote_dir_url' = r.url
          /\ IF r.kind = "raise"
             THEN pc' = "raised" /\ exc' = r.exc
             ELSE IF r.url = None
                  THEN pc' = "returned" /\ exc' = None
                  ELSE pc' = "enumerating" /\ exc' = None
    /\ UNCHANGED <<launcher, world, single, files, remote_dir, server_mods, todo, pending,
                   inflight, events, removed, submitted, written, files0,
                   dirs0, prevClean, unavailable, cancelled,
                   interrupted>>

\* ------------------------------------------------- the Manifest Client

\* What a listing call returns: None, or a list (held as the set of its names).
NoneResult == [is_none |-> TRUE, names |-> {}]
Some(names) == [is_none |-> FALSE, names |-> names]

\* remote.get_filenames(url): the filenames the server lists, or None when the
\* listing is unavailable; `ok` is whether the request succeeded.
get_filenames(url, ok) == IF ok THEN Some(server) ELSE NoneResult

\* remote.get_file_downloads(url): the download jobs of the same listing (one
\* per listed filename, named by it), or None when unavailable.
get_file_downloads(url, ok) == IF ok THEN Some(server) ELSE NoneResult

\* ----------------------------------------------------- sync_dir, the body

\* Lines 165-169 with an unavailable listing skipped silently (a return in
\* place of the raise of line 167).
Enumerate_skip ==
    /\ pc = "enumerating"
    /\ \E ok \in BOOLEAN :
          LET names == get_filenames(remote_dir_url, ok) IN
          IF names.is_none
          THEN /\ pc' = "returned"
               /\ exc' = None
               /\ unavailable' = "get_filenames"
               /\ UNCHANGED <<server_mods, todo>>
          ELSE /\ pc' = "removing"
               /\ exc' = None
               /\ server_mods' = names.names
               /\ unavailable' = None
               /\ todo' = files[local_dir]
    /\ UNCHANGED <<launcher, world, single, workdir, dirs, files, remote_dir, local_dir, remote_dir_url,
                   pending, inflight, events, res, removed, submitted, written,
                   files0, dirs0, iterated, prevClean, cancelled, interrupted>>

\* Lines 165-169: fetch the remote filenames; None raises ValueError, else
\* os.listdir(local_dir) is taken and the removal loop starts.
Enumerate ==
    /\ pc = "enumerating"
    /\ \E ok \in BOOLEAN :
          LET names == get_filenames(remote_dir_url, ok) IN
          IF names.is_none
          THEN /\ pc' = "raised"
               /\ exc' = ServerFilenamesNotSet
               /\ unavailable' = "get_filenames"
               /\ UNCHANGED <<server_mods, todo>>
          ELSE /\ pc' = "removing"
               /\ exc' = None
               /\ server_mods' = names.names
               /\ unavailable' = None
               /\ todo' = files[local_dir]
    /\ UNCHANGED <<launcher, world, single, workdir, dirs, files, remote_dir, local_dir, remote_dir_url,
                   pending, inflight, events, res, removed, submitted, written,
                   files0, dirs0, iterated, prevClean, cancelled, interrupted>>

\* A loop that removes a file the server lists.
KeepFile_remove(file) ==
    /\ pc = "removing"
    /\ file \in todo
    /\ file \in server_mods
    /\ todo' = todo \ {file}
    /\ files' = [files EXCEPT ![local_dir] = @ \ {file}]
    /\ removed' = removed \cup {file}
    /\ UNCHANGED <<launcher, world, single, workdir, dirs, pc, remote_dir, local_dir,
                   remote_dir_url, server_mods, pending, inflight, events, exc,
                   res, submitted, written, files0, dirs0, iterated,
                   prevClean, unavailable, cancelled,
                   interrupted>>

\* Lines 169-170: an iteration of the loop over a file the server lists.
KeepFile(file) ==
    /\ pc = "removing"
    /\ file \in todo
    /\ file \in server_mods
    /\ todo' = todo \ {file}
    /\ UNCHANGED <<launcher, world, single, workdir, dirs, files, pc, remote_dir, local_dir,
                   remote_dir_url, server_mods, pending, inflight, events, exc,
                   res, removed, submitted, written, files0, dirs0, iterated,
                   prevClean, unavailable, cancelled,
                   interrupted>>

\* A removal that the loop only notes and that is carried out once the
\* downloads are running.
RemoveFile_late(file) ==
    /\ file \notin server_mods
    /\ \/ /\ pc = "removing"
          /\ file \in todo
          /\ todo' = todo \ {file}
          /\ UNCHANGED <<files, removed>>
       \/ /\ pc = "transferring"
          /\ inflight # {}
          /\ file \in files[local_dir]
          /\ files' = [files EXCEPT ![local_dir] = @ \ {file}]
          /\ removed' = removed \cup {file}
          /\ UNCHANGED todo
    /\ UNCHANGED <<launcher, world, single, workdir, dirs, pc, remote_dir, local_dir, remote_dir_url,
                   server_mods, pending, inflight, events, exc, res, submitted,
                   written, files0, dirs0, iterated, prevClean, unavailable, cancelled,
                   interrupted>>

\* Lines 169-173: an iteration over a file the server does not list:
\* os.remove(file_path) removes it.
RemoveFile(file) ==
    /\ pc = "removing"
    /\ file \in todo
    /\ file \notin server_mods
    /\ todo' = todo \ {file}
    /\ files' = [files EXCEPT ![local_dir] = @ \ {file}]
    /\ removed' = removed \cup {file}
    /\ UNCHANGED <<launcher, world, single, workdir, dirs, pc, remote_dir, local_dir, remote_dir_url,
                   server_mods, pending, inflight, events, exc, res, submitted,
                   written, files0, dirs0, iterated, prevClean, unavailable, cancelled,
                   interrupted>>

\* Line 172 failing: os.remove raises OSError (the file is locked, read-only
\* or a directory).  Nothing around the call catches it, so it leaves the
\* loop and the generator and reaches the caller.
RemoveFails(file) ==
    /\ pc = "removing"
    /\ file \in todo
    /\ file \notin server_mods
    /\ pc' = "raised"
    /\ exc' = RemoveError
    /\ UNCHANGED <<launcher, world, single, workdir, dirs, files, remote_dir, local_dir, remote_dir_url,
                   server_mods, todo, pending, inflight, events, res, removed,
                   submitted, written, files0, dirs0, iterated, prevClean, unavailable, cancelled,
                   interrupted>>

\* Lines 176-180, once the loop is over: fetch the download list; None raises
\* ValueError, else the whole list is handed to remote.download_files.
FetchList ==
    /\ pc = "removing"
    /\ todo = {}
    /\ \E ok \in BOOLEAN :
          LET urls_to_download == get_file_downloads(remote_dir_url, ok) IN
          IF urls_to_download.is_none
          THEN /\ pc' = "raised"
               /\ exc' = UrlsToDownloadNotSet
               /\ unavailable' = "get_file_downloads"
               /\ UNCHANGED <<pending, submitted>>
          ELSE /\ pc' = "transferring"
               /\ exc' = None
               /\ pending' = urls_to_download.names
               /\ submitted' = urls_to_download.names
               /\ unavailable' = None
    /\ UNCHANGED <<launcher, world, single, workdir, dirs, files, remote_dir, local_dir, remote_dir_url,
                   server_mods, todo, inflight, events, res, removed, written,
                   files0, dirs0, iterated, prevClean, cancelled, interrupted>>

\* ------------------------------------------- remote.download_files

\* The coordinator hands a pending job to a free pool worker.
Dispatch(file) ==
    /\ pc = "transferring"
    /\ file \in pending
    /\ Cardinality(inflight) < PoolSize
    /\ pending' = pending \ {file}
    /\ inflight' = inflight \cup {file}
    /\ UNCHANGED <<launcher, world, single, workdir, dirs, files, pc, remote_dir, local_dir,
                   remote_dir_url, server_mods, todo, events, exc, res,
                   removed, submitted, written, files0, dirs0, iterated,
                   prevClean, unavailable, cancelled,
                   interrupted>>

\* The progress event of the k-th job to end: (count, total, filename,
\* error_occured).
ProgressEvent(k, file, err) == <<k, Cardinality(submitted), file, err>>

\* Lines 179-182 with the error flag lost in the forwarding.
yield_event_no_error(ev) == <<ev[1], ev[2], ev[3], FALSE>>

\* Lines 179-182 with count and total exchanged in the forwarding.
yield_event_swapped(ev) == <<ev[2], ev[1], ev[3], ev[4]>>

\* Lines 179-182: sync_dir unpacks an event of download_files into (count,
\* total, filename, error_occured) and yields the tuple of the four.
yield_event(ev) == <<ev[1], ev[2], ev[3], ev[4]>>

\* A job ends, with the file written (ok) or not; its progress event is
\* produced and sync_dir yields it unchanged (lines 179-182).
Complete(file, ok) ==
    /\ pc = "transferring"
    /\ file \in inflight
    /\ inflight' = inflight \ {file}
    /\ files' = IF ok THEN [files EXCEPT ![local_dir] = @ \cup {file}] ELSE files
    /\ written' = IF ok THEN written \cup {file} ELSE written
    /\ events' = Append(events,
                        yield_event(ProgressEvent(Len(events) + 1, file, ~ok)))
    /\ UNCHANGED <<launcher, world, single, workdir, dirs, pc, remote_dir, local_dir, remote_dir_url,
                   server_mods, todo, pending, exc, res, removed, submitted,
                   files0, dirs0, iterated, prevClean, unavailable, cancelled,
                   interrupted>>

\* The caller raises its cancellation signal between two progress events,
\* while jobs are still waiting.  sync_dir takes no such signal (line 147)
\* and hands none to download_files (lines 179-181), so no step of the run
\* reads it.
Cancel ==
    /\ pc = "transferring"
    /\ events # <<>>
    /\ pending # {}
    /\ ~cancelled
    /\ cancelled' = TRUE
    /\ UNCHANGED <<launcher, world, single, workdir, dirs, files, pc, remote_dir, frame, events, exc, res,
                   removed, submitted, written, files0, dirs0, iterated,
                   prevClean, unavailable, interrupted>>

\* A generator that starts over with the listing once the downloads are done.
Finish_back ==
    /\ pc = "transferring"
    /\ pending = {}
    /\ inflight = {}
    /\ pc' = "enumerating"
    /\ UNCHANGED <<launcher, world, single, workdir, dirs, files, remote_dir, frame, events, exc, res,
                   removed, submitted, written, files0, dirs0, iterated,
                   prevClean, unavailable, cancelled,
                   interrupted>>

\* download_files is exhausted: the loop of line 179 ends and the generator
\* returns (StopIteration at the caller).
Finish ==
    /\ pc = "transferring"
    /\ pending = {}
    /\ inflight = {}
    /\ pc' = "returned"
    /\ UNCHANGED <<launcher, world, single, workdir, dirs, files, remote_dir, frame, events, exc, res,
                   removed, submitted, written, files0, dirs0, iterated,
                   prevClean, unavailable, cancelled,
                   interrupted>>

Body ==
    \/ Enumerate
    \/ \E file \in Files : KeepFile(file)
    \/ \E file \in Files : RemoveFile(file)
    \/ \E file \in Files : RemoveFails(file)
    \/ FetchList
    \/ \E file \in Files : Dispatch(file)
    \/ \E file \in Files, ok \in BOOLEAN : Complete(file, ok)
    \/ Cancel
    \/ Finish

\* ------------------------------------------------------- specifications

\* The program as written: lines 70-79 see the module `remote`.
Next ==
    \/ \E rdir \in Names : Call(rdir)
    \/ Drop
    \/ Resolve(RemoteModule)

Spec == Init /\ [][Next]_vars

\* The inputs of sync_file: a manifest, work_dir present or not, each
\* singleton path empty, holding a file that differs from the server's or a
\* copy of it; the category directories are empty.
InitFile ==
    /\ urls \in FileManifests
    /\ server = {}
    /\ dirs = {}
    /\ files = [d \in Dirs |-> {}]
    /\ paths \in [FilePaths -> Contents]
    /\ workdir \in BOOLEAN
    /\ (\E p \in FilePaths : paths[p] # Absent) => workdir
    /\ paths0 = paths
    /\ sf = NoFileCall
    /\ LauncherIdle
    /\ pc = "idle"
    /\ remote_dir = None
    /\ local_dir = None
    /\ remote_dir_url = None
    /\ server_mods = {}
    /\ todo = {}
    /\ pending = {}
    /\ inflight = {}
    /\ events = <<>>
    /\ exc = None
    /\ res = NoCall
    /\ removed = {}
    /\ submitted = {}
    /\ written = {}
    /\ files0 = files
    /\ dirs0 = dirs
    /\ iterated = FALSE
    /\ unavailable = None
    /\ cancelled = FALSE
    /\ interrupted = FALSE
    /\ prevClean = None

\* The program as written, with the calls of sync_file.
NextFile ==
    \/ Next
    \/ \E remote_file \in Names : SyncFile(remote_file)

SpecFile == InitFile /\ [][NextFile]_vars

\* Lines 70-79 read as testing the parameter remote_dir; every generator
\* is iterated.
NextBody ==
    \/ \E rdir \in Names : Call(rdir)
    \/ Resolve(remote_dir)
    \/ Body

SpecBody == Init /\ [][NextBody]_vars

\* ------------------------------------------------- Launcher: Settings calls

\* No sync is running and nothing is on disk.
SyncIdle ==
    /\ urls = [k \in {} |-> None]
    /\ server = {}
    /\ dirs = {}
    /\ files = [d \in Dirs |-> {}]
    /\ pc = "idle"
    /\ remote_dir = None
    /\ local_dir = None
    /\ remote_dir_url = None
    /\ server_mods = {}
    /\ todo = {}
    /\ pending = {}
    /\ inflight = {}
    /\ events = <<>>
    /\ exc = None
    /\ res = NoCall
    /\ removed = {}
    /\ submitted = {}
    /\ written = {}
    /\ files0 = files
    /\ dirs0 = dirs
    /\ iterated = FALSE
    /\ unavailable = None
    /\ cancelled = FALSE
    /\ interrupted = FALSE
    /\ prevClean = None
    /\ workdir = FALSE
    /\ paths = [p \in FilePaths |-> Absent]
    /\ paths0 = paths
    /\ sf = NoFileCall

\* The process starts: the module has been imported, no Settings object
\* exists, settings.json is as an earlier run or the user left it.
InitSettings ==
    /\ SyncIdle
    /\ GuiIdle
    /\ settings_file \in InitialFiles
    /\ first_run = TRUE
    /\ defaults = OrigDefaults
    /\ objects = [o \in Objects |-> NoObject]
    /\ writable \in BOOLEAN
    /\ last = NoSettingsCall

\* The state a call of object o leaves behind.
Commit(o, M, made, op, k) ==
    /\ settings_file' = M.file
    /\ first_run' = M.first_run
    /\ defaults' = M.defaults
    /\ objects' = [objects EXCEPT
                      ![o] = [made |-> made, alias |-> M.alias, own |-> M.own]]
    /\ last' = [op |-> op, o |-> o, key |-> k, exc |-> M.exc,
                loads |-> M.loads, resets |-> M.resets]
    /\ UNCHANGED <<sync, gui, writable>>

\* Settings(), lines 96-100: the object is there unless load raised.
Construct(o) ==
    /\ ~objects[o].made
    /\ LET M == load(Machine(o), MaxDepth) IN
          Commit(o, M, M.exc = None, "init", None)

SetSetting(o, k) ==
    /\ objects[o].made
    /\ Commit(o, set_setting(Machine(o), k, SetValue(k)), TRUE, "set", k)

GetSetting(o, k) ==
    /\ objects[o].made
    /\ Commit(o, get_state(Machine(o)), TRUE, "get", k)

Reset(o) ==
    /\ objects[o].made
    /\ Commit(o, reset(Machine(o), MaxDepth), TRUE, "reset", None)

ResetSection(o, sec) ==
    /\ objects[o].made
    /\ Commit(o, reset_section(Machine(o), sec), TRUE, "reset_section", sec)

\* settings.json is deleted or damaged from outside the program, which
\* takes the same permission as writing it.
FileEdited(f) ==
    /\ writable
    /\ settings_file # f
    /\ \E o \in Objects : objects[o].made
    /\ settings_file' = f
    /\ last' = NoSettingsCall
    /\ UNCHANGED <<sync, gui, first_run, defaults, objects, writable>>

NextSettings ==
    \/ \E o \in Objects : Construct(o)
    \/ \E o \in Objects, k \in Keys : SetSetting(o, k)
    \/ \E o \in Objects, k \in Keys : GetSetting(o, k)
    \/ \E o \in Objects : Reset(o)
    \/ \E o \in Objects, sec \in Sections : ResetSection(o, sec)
    \/ \E f \in {FileMissing, FileDamaged} : FileEdited(f)

SpecSettings == InitSettings /\ [][NextSettings]_vars

\* ----------------------------------------------- Launcher: windows, thread

InitGui ==
    /\ SyncIdle
    /\ SettingsIdle
    /\ GuiIdle

\* The thread is started with a target.
StartThread(tg) ==
    /\ thread.state = "new"
    /\ thread' = [thread EXCEPT !.state = "started"]
    /\ target' = tg
    /\ UNCHANGED <<sync, settings, joined, play_button, settings_button, rg,
                   win>>

\* The target ends and run stores its outcome.
TargetEnds ==
    /\ thread.state = "started"
    /\ thread' = thread_run(thread, target)
    /\ UNCHANGED <<sync, settings, target, joined, play_button,
                   settings_button, rg, win>>

\* Another thread calls join: without a timeout super().join comes back
\* when the thread has ended, with a timeout it may come back earlier.
Join(timeout) ==
    /\ thread.state # "new"
    /\ ~timeout => thread.state = "done"
    /\ joined' = [called |-> TRUE, timeout |-> timeout, result |-> join(thread)]
    /\ UNCHANGED <<sync, settings, thread, target, play_button,
                   settings_button, rg, win>>

\* run_game, lines 240-241: the Play button was pressed; both buttons are
\* disabled and the installation window is awaited (lines 244-246).
ClickPlay ==
    /\ rg = "idle"
    /\ play_button = "normal"
    /\ win.state # "open"
    /\ play_button' = "disabled"
    /\ settings_button' = "disabled"
    /\ rg' = "installing"
    /\ UNCHANGED <<sync, settings, thread, target, joined, win>>

\* run_game, lines 248-257: the installation window has closed; without an
\* environment run_game returns (lines 249-252), with one it opens the
\* RunWindow and waits for it.
InstallEnds(env) ==
    /\ rg = "installing"
    /\ IF env = None
       THEN /\ play_button' = "normal"
            /\ settings_button' = "disabled"
            /\ rg' = "idle"
            /\ win' = win
       ELSE /\ win' = new_run_window(env)
            /\ rg' = "running"
            /\ UNCHANGED <<play_button, settings_button>>
    /\ UNCHANGED <<sync, settings, thread, target, joined>>

\* RunWindow(None), built by any other caller.
NoEnvironmentWindow ==
    /\ rg = "idle"
    /\ win.state # "open"
    /\ win' = new_run_window(None)
    /\ UNCHANGED <<sync, settings, thread, target, joined, play_button,
                   settings_button, rg>>

\* The scheduled run is called (line 67).
RunStarts ==
    /\ win.state = "open"
    /\ win.scheduled
    /\ win' = run(win)
    /\ UNCHANGED <<sync, settings, thread, target, joined, play_button,
                   settings_button, rg>>

\* The user asks to close the RunWindow: WM_DELETE_WINDOW calls destroy
\* (line 49).
CloseRequest ==
    /\ win.state = "open"
    /\ win' = destroy(win)
    /\ UNCHANGED <<sync, settings, thread, target, joined, play_button,
                   settings_button, rg>>

\* The runner calls on_run_complete; wait_window of run_game comes back and
\* run_game enables both buttons (lines 259-260).
RunComplete ==
    /\ win.state = "open"
    /\ win.running
    /\ win' = on_run_complete(win)
    /\ IF rg = "running"
       THEN /\ play_button' = "normal"
            /\ settings_button' = "normal"
            /\ rg' = "idle"
       ELSE UNCHANGED <<play_button, settings_button, rg>>
    /\ UNCHANGED <<sync, settings, thread, target, joined>>

NextGui ==
    \/ \E tg \in Targets : StartThread(tg)
    \/ TargetEnds
    \/ \E timeout \in BOOLEAN : Join(timeout)
    \/ ClickPlay
    \/ \E env \in {None, "environment"} : InstallEnds(env)
    \/ NoEnvironmentWindow
    \/ RunStarts
    \/ CloseRequest
    \/ RunComplete

SpecGui == InitGui /\ [][NextGui]_vars

\* ================================================================ claims

\* The generator of the current call is finished: it returned or raised.
Ended == pc \in {"returned", "raised"}
\* remote_dir is one of the four categories and a key of the manifest.
Resolvable == remote_dir \in Categories /\ remote_dir \in DOMAIN urls
\* ... and the manifest gives it a URL.
HasUrl == Resolvable /\ urls[remote_dir] # None
\* The category's directory and what it held when sync_dir was called.
ThisDir == WorkDir(remote_dir)
L0 == files0[ThisDir]
\* No listing call of this run returned None.
ListingAvailable == unavailable = None
\* No progress event of this run has the error flag.
AllSucceeded == \A i \in 1..Len(events) : ~events[i][4]
\* A download of this run has started.
DownloadStarted == inflight # {} \/ events # <<>>

\* C1: for a category that is a key of urls, _create_dir_path returns
\* (work_dir/category, urls[category]) and does not raise; it raises only
\* ValueError, and only for a name that is no key of urls or no category.
C1_ResolvesEveryListedCategory ==
    res.kind # "none" =>
        /\ Resolvable => res = Return(WorkDir(remote_dir), urls[remote_dir])
        /\ res.kind = "raise" => res.exc \in ValueErrors /\ ~Resolvable

\* C2: when a run for a category with a URL and available listings is over,
\* the files it removed are exactly L minus R.
C2_RemovesExactlyLocalMinusRemote ==
    (Ended /\ HasUrl /\ ListingAvailable) => removed = L0 \ server

\* C3: when such a run is over, the files it handed to the downloader are
\* exactly R minus L, none of them was deleted, and a file in both L and R
\* was neither deleted nor written again.
C3_SubmitsExactlyRemoteMinusLocal ==
    (Ended /\ HasUrl /\ ListingAvailable) =>
        /\ submitted = server \ L0
        /\ submitted \cap removed = {}
        /\ (L0 \cap server) \cap (removed \cup written) = {}

\* C4: when the manifest has no URL for the category (no key, or None), a
\* run that is over has yielded nothing, raised nothing, and left every
\* file and directory as it was.
C4_NoUrlIsASilentNoOp ==
    (Ended /\ remote_dir \in Categories /\ ~HasUrl) =>
        /\ events = <<>>
        /\ exc = None
        /\ files = files0
        /\ dirs = dirs0

C6_ErrorAtTheCall ==
    (remote_dir # None /\ ~Resolvable) => exc \in ValueErrors

\* C6 as amended: the call itself raises nothing; the ValueError is raised by
\* the first next() on the generator, and in either case nothing has been
\* enumerated, deleted, created or downloaded.
C6_ErrorAtFirstNext ==
    (remote_dir # None /\ ~Resolvable) =>
        /\ IF iterated
           THEN pc = "raised" /\
                exc \in {InvalidRemoteDirectory, UnknownValidRemoteDirectory}
           ELSE pc \in {"created", "idle"} /\ exc = None
        /\ files = files0
        /\ dirs = dirs0
        /\ events = <<>>
        /\ removed = {}
        /\ submitted = {}
        /\ inflight = {}
        /\ unavailable = None

\* C6 witness: an unknown name was passed, the generator was iterated and
\* the error reached the caller while the category directories do not exist.
C6_UnknownNameRaised ==
    /\ pc = "raised"
    /\ remote_dir = "bogus"
    /\ iterated
    /\ dirs0 = {}

C9_DirectoryEqualsRemote ==
    (Ended /\ HasUrl /\ ListingAvailable /\ server # {} /\ AllSucceeded
        /\ exc # RemoveError)
        => files[ThisDir] = server

C18_RunAfterInterruptionHeals ==
    (interrupted /\ Ended /\ HasUrl /\ server # {} /\ ListingAvailable
        /\ AllSucceeded /\ exc # RemoveError)
        => files[ThisDir] = server

\* The phase of the state machine a position of sync_dir belongs to: the
\* caller holds control in Idle, line 165 is Enumerating, lines 169-178 are
\* Planning and the loop of lines 179-182 is Transferring.
Phase(p) ==
    CASE p = "enumerating" -> "Enumerating"
      [] p = "removing" -> "Planning"
      [] p = "transferring" -> "Transferring"
      [] OTHER -> "Idle"

PhaseOrder ==
    {<<"Idle", "Idle">>, <<"Idle", "Enumerating">>,
     <<"Enumerating", "Planning">>, <<"Enumerating", "Idle">>,
     <<"Planning", "Planning">>, <<"Planning", "Transferring">>,
     <<"Planning", "Idle">>,
     <<"Transferring", "Transferring">>, <<"Transferring", "Idle">>}

\* A step of the facade keeps the order of the phases.
PhaseStep == <<Phase(pc), Phase(pc')>> \in PhaseOrder

FileCalled == sf.kind # "none"
ThePath == FilePath(sf.name)

C15_AlwaysDownloads ==
    (FileCalled /\ sf.name \in Singletons /\ sf.url # None
        /\ sf.exc # ServerFileNotSet)
        => /\ sf.requested
           /\ sf.ok => paths[ThePath] = Fresh

\* C16: a sync_file call with a name other than options and servers has
\* raised ValueError; no path has changed, work_dir has not been created,
\* nothing was removed and no download was requested.
C16_OtherNameRaisesUntouched ==
    (FileCalled /\ sf.name \notin Singletons) =>
        /\ sf.kind = "raise"
        /\ sf.exc \in {InvalidRemoteFile, UnknownValidRemoteFile}
        /\ paths = paths0
        /\ workdir = sf.workdir0
        /\ ~sf.removed
        /\ ~sf.requested

\* C16 witness: sync_file was called with the category mods, a key of the
\* manifest, while work_dir did not exist.
C16_CategoryNameRejected ==
    /\ sf.kind = "raise" /\ sf.name = "mods" /\ "mods" \in DOMAIN urls
    /\ sf.exc = UnknownValidRemoteFile
    /\ ~sf.workdir0

\* C17: a sync_file call for a singleton that the manifest gives no URL has
\* raised ValueError.
C17_NoUrlRaises ==
    (FileCalled /\ sf.name \in Singletons
        /\ (sf.name \notin DOMAIN urls \/ urls[sf.name] = None))
        => sf.kind = "raise" /\ sf.exc \in FileValueErrors

\* C21: a singleton path that held a file when sync_file was called holds a
\* file after the call, however the call ended.
C21_ExistingFileSurvives ==
    (FileCalled /\ sf.name \in Singletons /\ paths0[ThePath] # Absent)
        => paths[ThePath] # Absent

\* What get_* returns for a key that was set to v: set_gui and get_gui turn
\* a tuple or a list into a tuple.
Returned(k, v) ==
    IF SecOf(k) = "gui" /\ v[1] \in {"list", "tuple"}
    THEN <<"tuple", v[2]>> ELSE v

\* A Settings() call on a missing or damaged file gives the object the
\* default values and writes them to the file.
ConstructYieldsDefaults(o) ==
    (Construct(o) /\ settings_file.state # "ok") =>
        /\ settings_file' = FileOk(OrigDefaults)
        /\ objects'[o].made
        /\ \A k \in Keys :
              get_value(Machine(o), k)' = Returned(k, OrigDefaults[k])

\* After set_*(k=v) on an intact file every object, made or new, answers v
\* for k, and the calling object answers for every other key what it
\* answered before.
SetThenGet(o, k) ==
    (SetSetting(o, k) /\ settings_file.state = "ok") =>
        /\ \A o2 \in Objects :
              get_value(Machine(o2), k)' = Returned(k, SetValue(k))
        /\ \A k2 \in Keys \ {k} :
              get_value(Machine(o), k2)' = get_value(Machine(o), k2)

\* C22: while settings.json can be written, constructing Settings on a
\* missing or damaged file yields the defaults and writes the file, and
\* after set_*(k=v) get_*(k) on any object returns v (a tuple for a gui
\* tuple or list) while every other key keeps its value.
C22_SettingsRoundTrip ==
    [][writable =>
          \A o \in Objects :
             /\ ConstructYieldsDefaults(o)
             /\ \A k \in Keys : SetThenGet(o, k)]_vars

\* C23: no Settings call exhausts the recursion load -> reset -> save ->
\* load, from the states reached and from every state for every object; while
\* settings.json can be written, a call enters load at most twice, resets at
\* most once and does not raise.
C23_LoadTerminates ==
    /\ last.exc # RecursionError
    /\ \A o \in Objects : load(Machine(o), MaxDepth).exc # RecursionError
    /\ writable =>
          /\ last.loads <= 2 /\ last.resets <= 1 /\ last.exc = None
          /\ \A o \in Objects :
                LET M == load(Machine(o), MaxDepth) IN
                M.loads <= 2 /\ M.resets <= 1 /\ M.exc = None

\* C23 witness: after the first run, a get_* found the file missing or
\* damaged, reset it and loaded it again.
C23_ResetThenLoaded ==
    /\ last.op = "get" /\ last.resets = 1 /\ last.loads = 2
    /\ ~first_run /\ settings_file.state = "ok"

\* C24: the module dictionaries hold their original values, and after a
\* reset_X that returned the section X of the object holds the original
\* defaults.
C24_DefaultsKeepOriginal ==
    /\ defaults = OrigDefaults
    /\ (last.op = "reset_section" /\ last.exc = None) =>
          \A k \in Keys :
             SecOf(k) = last.key =>
                View(Machine(last.o))[k] = OrigDefaults[k]

\* C25: a join that returned normally returned the value the target
\* returns, and a join on a thread whose target raises raised that
\* exception.
C25_JoinPropagatesOutcome ==
    joined.called =>
        /\ joined.result[1] = "return" =>
              target.kind = "return" /\ joined.result[2] = target.value
        /\ target.kind = "raise" => joined.result = <<"raise", target.value>>

\* A close request leaves the window open and sets kill_process; once
\* True, kill_process of an open window stays True; only on_run_complete
\* destroys an open window.
WindowStep ==
    /\ CloseRequest => win'.state = "open" /\ win'.kill_process = "True"
    /\ (win.state = "open" /\ win.kill_process = "True")
          => win'.kill_process = "True"
    /\ (win.state = "open" /\ win'.state # "open") => RunComplete
    /\ NoEnvironmentWindow => win'.state = "destroyed" /\ ~win'.scheduled

\* C26: a close request on a RunWindow with an environment never destroys
\* it and only sets kill_process, which stays True; the window is destroyed
\* only by on_run_complete; a RunWindow built without an environment is
\* destroyed at once with no run scheduled.
C26_CloseOnlyStopsTheRun ==
    /\ [][WindowStep]_vars
    /\ []((win.scheduled \/ win.running) => win.state = "open")

\* C26 witness: the user asked to close the window while the game was
\* running.
C26_CloseRequestedWhileRunning ==
    win.state = "open" /\ win.running /\ win.kill_process = "True"

\* C27: both buttons are disabled while run_game is under way and enabled
\* once it has returned.
C27_ButtonsFollowRunGame ==
    IF rg = "idle"
    THEN play_button = "normal" /\ settings_button = "normal"
    ELSE play_button = "disabled" /\ settings_button = "disabled"

====
